---- MODULE Spec2Model ----
(***************************************************************************)
(* Model of the claim payload types of package jwt (types.go): the         *)
(* validators Import.Valid, Export.Valid, Activation.Valid, Account.Valid, *)
(* Revocation.Valid and the StringList helper (Add / Remove).              *)
(*                                                                         *)
(* Spec: a caller holds either one payload, whose Valid() method it calls  *)
(* once, or one StringList, initially empty, on which it calls Add and     *)
(* Remove with any arguments, any number of times.                         *)
(***************************************************************************)
EXTENDS Integers, Sequences, FiniteSets, TLC

\* ------------------------------------------------------------------------
\* Bounds of the exploration
\* ------------------------------------------------------------------------
MaxImports == 2
MaxAct == 2
MaxExports == 2
MaxArgs == 2
MaxClock == 4

SeqsUpTo(S, n) == UNION {[1..k -> S] : k \in 0..n}

\* ------------------------------------------------------------------------
\* Strings the payloads are built from
\* ------------------------------------------------------------------------
ImportExportTypeStream == "stream"
ImportExportTypeService == "service"

\* values an ImportExportType field may hold after decoding (any string)
TypeStrs == {"stream", "service", "Stream", "bogus", ""}
SubjectStrs == {"", "foo", "bar"}
\* "AKEY" stands for a well-formed public account key, the others are names
AccountStrs == {"AKEY", "X", "Y", "Z"}
\* encoded activation tokens found in Account.Act
ActTokens == {"jwtX", "jwtY", "garbage"}
\* encoded tokens found in Revocation.JWT
JWTStrs == {"", "jwtabc", "jwtxyz", "garbage"}
RevokedStrs == {"", "abc", "xyz"}
ReasonStrs == {"", "why"}

\* ------------------------------------------------------------------------
\* Errors.  A Go error value is a record; the nil error is Nil.
\* ------------------------------------------------------------------------
Nil == [kind |-> "nil"]
Pending == [kind |-> "pending"]

\* ------------------------------------------------------------------------
\* External collaborators
\* ------------------------------------------------------------------------
\* DecodeActivationClaims(s): the claims carried by the token, or an error.
\* "jwtX" carries a well-formed activation named X, "jwtY" an activation
\* named Y whose only export has an unknown type; anything else fails.
DecodeActivationClaims(s) ==
    CASE s = "jwtX" ->
           [claims |-> [Name |-> "X",
                        Exports |-> <<[Type |-> "stream", Subject |-> "foo"]>>],
            err |-> Nil]
      [] s = "jwtY" ->
           [claims |-> [Name |-> "Y",
                        Exports |-> <<[Type |-> "bogus", Subject |-> "bar"]>>],
            err |-> Nil]
      [] OTHER ->
           [claims |-> [Name |-> "", Exports |-> <<>>],
            err |-> [kind |-> "DecodeError", token |-> s]]

\* DecodeGeneric(s): the generic claims carried by the token, or an error.
DecodeGeneric(s) ==
    CASE s = "jwtabc" -> [claims |-> [ID |-> "abc"], err |-> Nil]
      [] s = "jwtxyz" -> [claims |-> [ID |-> "xyz"], err |-> Nil]
      [] OTHER -> [claims |-> [ID |-> ""],
                   err |-> [kind |-> "DecodeError", token |-> s]]

\* nkeys.IsValidPublicAccountKey
IsValidPublicAccountKey(s) == s = "AKEY"

\* ------------------------------------------------------------------------
\* Import.Valid
\* ------------------------------------------------------------------------
ImportValidChecksAccount(a) ==
    IF a.Type # ImportExportTypeService /\ a.Type # ImportExportTypeStream
    THEN [kind |-> "InvalidImportType", type |-> a.Type]
    ELSE IF a.Account = ""
    THEN [kind |-> "InvalidImportType", type |-> a.Type]
    ELSE Nil

ImportValid(a) ==
    IF a.Type # ImportExportTypeService /\ a.Type # ImportExportTypeStream
    THEN [kind |-> "InvalidImportType", type |-> a.Type]
    ELSE Nil

\* ------------------------------------------------------------------------
\* Export.Valid
\* ------------------------------------------------------------------------
ExportValidSubjectFirst(e) ==
    IF e.Subject = ""
    THEN [kind |-> "EmptySubject"]
    ELSE IF e.Type # ImportExportTypeService /\ e.Type # ImportExportTypeStream
    THEN [kind |-> "InvalidExportType", type |-> e.Type]
    ELSE Nil

ExportValid(e) ==
    IF e.Type # ImportExportTypeService /\ e.Type # ImportExportTypeStream
    THEN [kind |-> "InvalidExportType", type |-> e.Type]
    ELSE IF e.Subject = ""
    THEN [kind |-> "EmptySubject"]
    ELSE Nil

\* ------------------------------------------------------------------------
\* Activation.Valid: the loop over a.Exports.  i is the 1-based position of
\* the next export, the Go index is i - 1.  calls logs the Go indexes of the
\* exports whose Valid() has been called.
\* ------------------------------------------------------------------------
RECURSIVE ActivationValidFrom(_, _, _)
ActivationValidFrom(exports, i, calls) ==
    IF i > Len(exports)
    THEN [err |-> Nil, calls |-> calls]
    ELSE LET err == ExportValid(exports[i])
             log == Append(calls, [fn |-> "Export.Valid", arg |-> i - 1])
         IN IF err # Nil
            THEN [err |-> [kind |-> "ExportValidationFailed",
                           index |-> i - 1, cause |-> err],
                  calls |-> log]
            ELSE ActivationValidFrom(exports, i + 1, log)

RECURSIVE ActivationValidLastError(_, _, _)
ActivationValidLastError(exports, i, calls) ==
    IF i > Len(exports)
    THEN [err |-> Nil, calls |-> calls]
    ELSE LET err == ExportValid(exports[i])
             log == Append(calls, [fn |-> "Export.Valid", arg |-> i - 1])
             rest == ActivationValidLastError(exports, i + 1, log)
         IN IF err # Nil /\ rest.err = Nil
            THEN [err |-> [kind |-> "ExportValidationFailed",
                           index |-> i - 1, cause |-> err],
                  calls |-> rest.calls]
            ELSE rest

ActivationValidAll(a) == ActivationValidLastError(a.Exports, 1, <<>>)

ActivationValid(a) == ActivationValidFrom(a.Exports, 1, <<>>)

\* ------------------------------------------------------------------------
\* Account.Activations: decode a.Act in order, stop at the first failure.
\* ------------------------------------------------------------------------
RECURSIVE ActivationsFrom(_, _, _, _)
ActivationsFrom(act, i, buf, calls) ==
    IF i > Len(act)
    THEN [buf |-> buf, err |-> Nil, calls |-> calls]
    ELSE LET d == DecodeActivationClaims(act[i])
             log == Append(calls, [fn |-> "DecodeActivationClaims",
                                   arg |-> act[i]])
         IN IF d.err # Nil
            THEN [buf |-> <<>>,
                  err |-> [kind |-> "ActivationDecodeFailed",
                           index |-> i - 1, cause |-> d.err],
                  calls |-> log]
            ELSE ActivationsFrom(act, i + 1, Append(buf, d.claims), log)

RECURSIVE ActivationsDecodeAll(_, _, _, _, _)
ActivationsDecodeAll(act, i, buf, calls, first) ==
    IF i > Len(act)
    THEN [buf |-> IF first = Nil THEN buf ELSE <<>>,
          err |-> first, calls |-> calls]
    ELSE LET d == DecodeActivationClaims(act[i])
             log == Append(calls, [fn |-> "DecodeActivationClaims",
                                   arg |-> act[i]])
             e == IF d.err # Nil /\ first = Nil
                  THEN [kind |-> "ActivationDecodeFailed",
                        index |-> i - 1, cause |-> d.err]
                  ELSE first
         IN ActivationsDecodeAll(act, i + 1, Append(buf, d.claims), log, e)

ActivationsNoAbort(a) == ActivationsDecodeAll(a.Act, 1, <<>>, <<>>, Nil)

Activations(a) == ActivationsFrom(a.Act, 1, <<>>, <<>>)

\* ------------------------------------------------------------------------
\* Account.Valid
\* ------------------------------------------------------------------------
\* tokenMap: the set of keys mapped to true
TokenMap(activations) == {activations[i].Name : i \in 1..Len(activations)}

\* the condition of the if statement in the loop over a.Imports
UnresolvedEither(tokenMap, t) ==
    ~IsValidPublicAccountKey(t.Account) \/ t.Account \notin tokenMap

Unresolved(tokenMap, t) ==
    ~IsValidPublicAccountKey(t.Account) /\ t.Account \notin tokenMap

RECURSIVE ImportsFrom(_, _, _, _)
ImportsFrom(imports, i, tokenMap, calls) ==
    IF i > Len(imports)
    THEN [err |-> Nil, calls |-> calls]
    ELSE LET t == imports[i]
             log == Append(calls, [fn |-> "IsValidPublicAccountKey",
                                   arg |-> t.Account])
         IN IF Unresolved(tokenMap, t)
            THEN [err |-> [kind |-> "UnresolvedImportAccount",
                           account |-> t.Account],
                  calls |-> log]
            ELSE ImportsFrom(imports, i + 1, tokenMap, log)

RECURSIVE ImportsValidFrom(_, _)
ImportsValidFrom(imports, i) ==
    IF i > Len(imports)
    THEN Nil
    ELSE IF ImportValid(imports[i]) # Nil
         THEN ImportValid(imports[i])
         ELSE ImportsValidFrom(imports, i + 1)

AccountValidChecksImports(a) ==
    LET r == Activations(a)
    IN IF r.err # Nil
       THEN [err |-> r.err, calls |-> r.calls]
       ELSE IF ImportsValidFrom(a.Imports, 1) # Nil
       THEN [err |-> ImportsValidFrom(a.Imports, 1), calls |-> r.calls]
       ELSE ImportsFrom(a.Imports, 1, TokenMap(r.buf), r.calls)

AccountValid(a) ==
    LET r == Activations(a)
    IN IF r.err # Nil
       THEN [err |-> r.err, calls |-> r.calls]
       ELSE ImportsFrom(a.Imports, 1, TokenMap(r.buf), r.calls)

\* ------------------------------------------------------------------------
\* Revocation.Valid
\* ------------------------------------------------------------------------
RevocationValidRevokedFirst(u) ==
    IF u.Revoked = ""
    THEN [err |-> [kind |-> "MissingRevokedID"], calls |-> <<>>]
    ELSE IF u.JWT = ""
    THEN [err |-> [kind |-> "MissingJWT"], calls |-> <<>>]
    ELSE LET d == DecodeGeneric(u.JWT)
             log == <<[fn |-> "DecodeGeneric", arg |-> u.JWT]>>
         IN IF d.err # Nil
            THEN [err |-> d.err, calls |-> log]
            ELSE IF d.claims.ID # u.Revoked
            THEN [err |-> [kind |-> "RevokedIDMismatch"], calls |-> log]
            ELSE [err |-> Nil, calls |-> log]

RevocationValid(u) ==
    IF u.JWT = ""
    THEN [err |-> [kind |-> "MissingJWT"], calls |-> <<>>]
    ELSE IF u.Revoked = ""
    THEN [err |-> [kind |-> "MissingRevokedID"], calls |-> <<>>]
    ELSE LET d == DecodeGeneric(u.JWT)
             log == <<[fn |-> "DecodeGeneric", arg |-> u.JWT]>>
         IN IF d.err # Nil
            THEN [err |-> d.err, calls |-> log]
            ELSE IF d.claims.ID # u.Revoked
            THEN [err |-> [kind |-> "RevokedIDMismatch"], calls |-> log]
            ELSE [err |-> Nil, calls |-> log]

\* ------------------------------------------------------------------------
\* StringList.  The list is carried with two bookkeeping fields: clock
\* counts the appends made so far, stamp[v] is the clock value of the most
\* recent append of v (0: never appended).
\* ------------------------------------------------------------------------
ListValues == {"", "a", "b", "c"}

contains(u, p) == \E i \in 1..Len(u) : u[i] = p

\* the body of the loop of Add, for one argument v
AddStepNoContains(st, v) ==
    IF v # ""
    THEN [list |-> Append(st.list, v),
          stamp |-> [st.stamp EXCEPT ![v] = st.clock + 1],
          clock |-> st.clock + 1]
    ELSE st

AddStepNoEmptyCheck(st, v) ==
    IF ~contains(st.list, v)
    THEN [list |-> Append(st.list, v),
          stamp |-> [st.stamp EXCEPT ![v] = st.clock + 1],
          clock |-> st.clock + 1]
    ELSE st

AddStep(st, v) ==
    IF ~contains(st.list, v) /\ v # ""
    THEN [list |-> Append(st.list, v),
          stamp |-> [st.stamp EXCEPT ![v] = st.clock + 1],
          clock |-> st.clock + 1]
    ELSE st

RECURSIVE AddFrom(_, _, _)
AddFrom(st, p, i) ==
    IF i > Len(p) THEN st ELSE AddFrom(AddStep(st, p[i]), p, i + 1)

Add(st, p) == AddFrom(st, p, 1)

\* the body of the outer loop of Remove, for one argument v: the inner loop
\* stops at the first i with u[i] = v and cuts that element out
RemoveStepKeeps(st, v) ==
    IF contains(st.list, v)
    THEN LET a == st.list
             i == CHOOSE k \in 1..Len(a) :
                      a[k] = v /\ \A j \in 1..(k - 1) : a[j] # v
         IN [st EXCEPT !.list = SubSeq(a, 1, i - 1) \o SubSeq(a, i, Len(a))]
    ELSE st

RemoveStep(st, v) ==
    IF contains(st.list, v)
    THEN LET a == st.list
             i == CHOOSE k \in 1..Len(a) :
                      a[k] = v /\ \A j \in 1..(k - 1) : a[j] # v
         IN [st EXCEPT !.list = SubSeq(a, 1, i - 1) \o SubSeq(a, i + 1, Len(a))]
    ELSE st

RECURSIVE RemoveFrom(_, _, _)
RemoveFrom(st, p, i) ==
    IF i > Len(p) THEN st ELSE RemoveFrom(RemoveStep(st, p[i]), p, i + 1)

Remove(st, p) == RemoveFrom(st, p, 1)

\* ------------------------------------------------------------------------
\* The payloads a caller may hold
\* ------------------------------------------------------------------------
Imports == [Type : TypeStrs, Account : AccountStrs \cup {""},
            Subject : {"", "foo"}, To : {"", "to"}, Prefix : {"", "pre"}]
\* the imports of an Account: every type class and every account string
AccountImports == [Type : {"stream", "bogus"}, Account : AccountStrs,
                   Subject : {"foo"}, To : {""}, Prefix : {""}]
Exports == [Type : TypeStrs, Subject : SubjectStrs]
ActivationsSet == [Exports : SeqsUpTo(Exports, MaxExports)]
Accounts == [Imports : SeqsUpTo(AccountImports, MaxImports),
             Act : SeqsUpTo(ActTokens, MaxAct)]
Revocations == [Revoked : RevokedStrs, JWT : JWTStrs, Reason : ReasonStrs]

VARIABLES
    kind,     \* the type of the value the caller holds
    claim,    \* the payload (kind # "StringList")
    result,   \* the error returned by the last Valid() call, or Pending
    calls,    \* the calls made by that Valid(), in order
    sl,       \* the StringList with its bookkeeping (kind = "StringList")
    op,       \* the last StringList call: its name and arguments
    before,   \* the list as it was before that call
    rep       \* that call was an Add repeating the Add just before it

vars == <<kind, claim, result, calls, sl, op, before, rep>>
claimVars == <<claim, result, calls>>
listVars == <<sl, op, before, rep>>

EmptyList == [list |-> <<>>, stamp |-> [v \in ListValues |-> 0], clock |-> 0]
NoOp == [name |-> "none", args |-> <<>>]

Init ==
    /\ \/ kind = "Import" /\ claim \in Imports
       \/ kind = "Export" /\ claim \in Exports
       \/ kind = "Activation" /\ claim \in ActivationsSet
       \/ kind = "Account" /\ claim \in Accounts
       \/ kind = "Revocation" /\ claim \in Revocations
       \/ kind = "StringList" /\ claim = Nil
    /\ result = Pending
    /\ calls = <<>>
    /\ sl = EmptyList
    /\ op = NoOp
    /\ before = <<>>
    /\ rep = FALSE

CallImportValid ==
    /\ kind = "Import" /\ result = Pending
    /\ result' = ImportValid(claim)
    /\ UNCHANGED <<kind, claim, calls, listVars>>

CallExportValid ==
    /\ kind = "Export" /\ result = Pending
    /\ result' = ExportValid(claim)
    /\ UNCHANGED <<kind, claim, calls, listVars>>

CallActivationValid ==
    /\ kind = "Activation" /\ result = Pending
    /\ result' = ActivationValid(claim).err
    /\ calls' = ActivationValid(claim).calls
    /\ UNCHANGED <<kind, claim, listVars>>

CallAccountValid ==
    /\ kind = "Account" /\ result = Pending
    /\ result' = AccountValid(claim).err
    /\ calls' = AccountValid(claim).calls
    /\ UNCHANGED <<kind, claim, listVars>>

CallRevocationValid ==
    /\ kind = "Revocation" /\ result = Pending
    /\ result' = RevocationValid(claim).err
    /\ calls' = RevocationValid(claim).calls
    /\ UNCHANGED <<kind, claim, listVars>>

CallAdd ==
    /\ kind = "StringList"
    /\ \E p \in SeqsUpTo(ListValues, MaxArgs) :
          /\ Add(sl, p).clock <= MaxClock
          /\ sl' = Add(sl, p)
          /\ op' = [name |-> "Add", args |-> p]
          /\ rep' = (op = [name |-> "Add", args |-> p])
    /\ before' = sl.list
    /\ UNCHANGED <<kind, claimVars>>

CallRemove ==
    /\ kind = "StringList"
    /\ \E p \in SeqsUpTo(ListValues, MaxArgs) :
          /\ sl' = Remove(sl, p)
          /\ op' = [name |-> "Remove", args |-> p]
    /\ before' = sl.list
    /\ rep' = FALSE
    /\ UNCHANGED <<kind, claimVars>>

Next ==
    \/ CallImportValid
    \/ CallExportValid
    \/ CallActivationValid
    \/ CallAccountValid
    \/ CallRevocationValid
    \/ CallAdd
    \/ CallRemove

Spec == Init /\ [][Next]_vars

\* ------------------------------------------------------------------------
\* Vocabulary of the properties
\* ------------------------------------------------------------------------
ValidType(t) == t \in {"stream", "service"}
Validated(k) == kind = k /\ result # Pending

Decodes(a, i) == DecodeActivationClaims(a.Act[i]).err = Nil
AllDecode(a) == \A i \in 1..Len(a.Act) : Decodes(a, i)
FirstUndecodable(a) ==
    CHOOSE i \in 1..Len(a.Act) :
        ~Decodes(a, i) /\ \A j \in 1..(i - 1) : Decodes(a, j)
ActivationNames(a) ==
    {DecodeActivationClaims(a.Act[i]).claims.Name : i \in 1..Len(a.Act)}
Resolves(a, i) ==
    \/ IsValidPublicAccountKey(a.Imports[i].Account)
    \/ a.Imports[i].Account \in ActivationNames(a)
AllResolve(a) == \A i \in 1..Len(a.Imports) : Resolves(a, i)
FirstUnresolved(a) ==
    CHOOSE i \in 1..Len(a.Imports) :
        ~Resolves(a, i) /\ \A j \in 1..(i - 1) : Resolves(a, j)

ExportOK(e) == ValidType(e.Type) /\ e.Subject # ""
FirstBadExport(a) ==
    CHOOSE i \in 1..Len(a.Exports) :
        ~ExportOK(a.Exports[i]) /\ \A j \in 1..(i - 1) : ExportOK(a.Exports[j])

Count(u, v) == Cardinality({i \in 1..Len(u) : u[i] = v})

\* ------------------------------------------------------------------------
\* C1: when every act entry decodes, Account.Valid() returns nil iff every
\* import's account is a valid public account key or the name of a decoded
\* activation; otherwise it returns the unresolved-import error carrying the
\* account of the first import, in list order, that does not resolve.
\* ------------------------------------------------------------------------
C1_AccountResolution ==
    (Validated("Account") /\ AllDecode(claim)) =>
        IF AllResolve(claim)
        THEN result = Nil
        ELSE result = [kind |-> "UnresolvedImportAccount",
                       account |->
                           claim.Imports[FirstUnresolved(claim)].Account]

\* the first import resolves through an activation name, the second does not
C1_Witness ==
    /\ Validated("Account") /\ AllDecode(claim)
    /\ Len(claim.Imports) = 2
    /\ claim.Imports[1].Account = "X" /\ Resolves(claim, 1)
    /\ ~Resolves(claim, 2)
    /\ result.kind = "UnresolvedImportAccount"

\* ------------------------------------------------------------------------
\* C2: when some act entry does not decode, Account.Valid() returns the
\* decode error with the zero-based index of the first such entry; the
\* decoder is called on the entries up to that one and on no later entry,
\* and no import is examined.
\* ------------------------------------------------------------------------
C2_DecodeFailureFirst ==
    (Validated("Account") /\ ~AllDecode(claim)) =>
        LET k == FirstUndecodable(claim)
        IN /\ result = [kind |-> "ActivationDecodeFailed", index |-> k - 1,
                        cause |-> DecodeActivationClaims(claim.Act[k]).err]
           /\ calls = [i \in 1..k |-> [fn |-> "DecodeActivationClaims",
                                       arg |-> claim.Act[i]]]

\* the first entry fails, an entry follows it, and an import does not resolve
C2_Witness ==
    /\ Validated("Account")
    /\ Len(claim.Act) = 2 /\ ~Decodes(claim, 1)
    /\ Len(claim.Imports) > 0 /\ claim.Imports[1].Account = "Z"
    /\ result.kind = "ActivationDecodeFailed" /\ result.index = 0
    /\ Len(calls) = 1

\* ------------------------------------------------------------------------
\* C3: Revocation.Valid() returns the outcome of the first failing check in
\* the order: empty jwt, empty revoked, decode of jwt, decoded ID differs
\* from revoked; nil when all pass.  The decoder is not called when jwt or
\* revoked is empty.
\* ------------------------------------------------------------------------
C3_RevocationOrder ==
    Validated("Revocation") =>
        LET d == DecodeGeneric(claim.JWT)
            log == <<[fn |-> "DecodeGeneric", arg |-> claim.JWT]>>
        IN CASE claim.JWT = "" ->
                  result = [kind |-> "MissingJWT"] /\ calls = <<>>
             [] claim.JWT # "" /\ claim.Revoked = "" ->
                  result = [kind |-> "MissingRevokedID"] /\ calls = <<>>
             [] claim.JWT # "" /\ claim.Revoked # "" /\ d.err # Nil ->
                  result = d.err /\ calls = log
             [] claim.JWT # "" /\ claim.Revoked # "" /\ d.err = Nil
                  /\ d.claims.ID # claim.Revoked ->
                  result = [kind |-> "RevokedIDMismatch"] /\ calls = log
             [] OTHER -> result = Nil /\ calls = log

\* both fields empty: the missing-JWT error wins
C3_Witness ==
    /\ Validated("Revocation")
    /\ claim.JWT = "" /\ claim.Revoked = ""
    /\ result.kind = "MissingJWT"

\* ------------------------------------------------------------------------
\* C4: Export.Valid() returns nil iff the type is stream or service and the
\* subject is not empty; an invalid type gives the invalid-type error
\* whatever the subject, and the empty-subject error is returned only when
\* the type is valid.
\* ------------------------------------------------------------------------
C4_ExportValid ==
    Validated("Export") =>
        /\ result = Nil <=> (ValidType(claim.Type) /\ claim.Subject # "")
        /\ ~ValidType(claim.Type) =>
               result = [kind |-> "InvalidExportType", type |-> claim.Type]
        /\ result.kind = "EmptySubject" => ValidType(claim.Type)
        /\ (ValidType(claim.Type) /\ claim.Subject = "") =>
               result.kind = "EmptySubject"

\* invalid type and empty subject together
C4_Witness ==
    /\ Validated("Export")
    /\ ~ValidType(claim.Type) /\ claim.Subject = ""
    /\ result.kind = "InvalidExportType"

\* ------------------------------------------------------------------------
\* C5: Import.Valid() returns nil iff the type is stream or service, whatever
\* the account, subject, to and prefix fields hold.
\* ------------------------------------------------------------------------
C5_ImportValid ==
    Validated("Import") =>
        result = IF ValidType(claim.Type)
                 THEN Nil
                 ELSE [kind |-> "InvalidImportType", type |-> claim.Type]

\* an import with a valid type and every other field empty is valid
C5_Witness ==
    /\ Validated("Import")
    /\ ValidType(claim.Type)
    /\ claim.Account = "" /\ claim.Subject = ""
    /\ claim.To = "" /\ claim.Prefix = ""
    /\ result = Nil

\* ------------------------------------------------------------------------
\* C6: Activation.Valid() returns nil iff every export is valid (so with no
\* export it returns nil); otherwise the error carries the zero-based index
\* of the first invalid export and that export's own error, and no later
\* export is validated.
\* ------------------------------------------------------------------------
C6_ActivationValid ==
    Validated("Activation") =>
        IF \A i \in 1..Len(claim.Exports) : ExportOK(claim.Exports[i])
        THEN /\ result = Nil
             /\ calls = [i \in 1..Len(claim.Exports) |->
                            [fn |-> "Export.Valid", arg |-> i - 1]]
        ELSE LET k == FirstBadExport(claim)
             IN /\ result = [kind |-> "ExportValidationFailed",
                             index |-> k - 1,
                             cause |-> ExportValid(claim.Exports[k])]
                /\ calls = [i \in 1..k |->
                               [fn |-> "Export.Valid", arg |-> i - 1]]

\* two invalid exports: the first one is reported, the second not validated
C6_Witness ==
    /\ Validated("Activation")
    /\ Len(claim.Exports) = 2
    /\ ~ExportOK(claim.Exports[1]) /\ ~ExportOK(claim.Exports[2])
    /\ claim.Exports[1] # claim.Exports[2]
    /\ result.kind = "ExportValidationFailed" /\ result.index = 0
    /\ Len(calls) = 1

\* ------------------------------------------------------------------------
\* C7 as stated: after Add(v) followed by Add(v) the list holds exactly one
\* occurrence of v, for every value v.
\* ------------------------------------------------------------------------
C7_AddTwiceAnyValue ==
    (kind = "StringList" /\ rep /\ Len(op.args) = 1) =>
        Count(sl.list, op.args[1]) = 1

\* C7 amended: after Add(v) followed by Add(v) the list holds exactly one
\* occurrence of v when v is not the empty string, and none when it is.
C7_AddTwice ==
    (kind = "StringList" /\ rep /\ Len(op.args) = 1) =>
        Count(sl.list, op.args[1]) = IF op.args[1] = "" THEN 0 ELSE 1

\* Add("b") twice on a list that already holds another value
C7_Witness ==
    /\ kind = "StringList" /\ rep /\ op.args = <<"b">>
    /\ sl.list = <<"a", "b">>

C9_ListInvariant ==
    kind = "StringList" =>
        /\ ~contains(sl.list, "")
        /\ \A v \in ListValues : Count(sl.list, v) <= 1
        /\ \A i, j \in 1..Len(sl.list) :
               i < j => /\ sl.stamp[sl.list[i]] > 0
                        /\ sl.stamp[sl.list[i]] < sl.stamp[sl.list[j]]

\* a value was appended, removed and appended again behind a later one
C9_Witness ==
    /\ kind = "StringList"
    /\ sl.list = <<"b", "a">>
    /\ sl.stamp["a"] = 3 /\ sl.stamp["b"] = 2

\* ------------------------------------------------------------------------
\* C10: Account.Valid() calls neither Import.Valid() nor Activation.Valid():
\* when every act entry decodes and every import resolves it returns nil,
\* also when an import has an invalid type or a decoded activation carries
\* an invalid export, and the only calls it makes are the decodes of the act
\* entries followed by the key checks of the imports.
\* ------------------------------------------------------------------------
C10_AccountIgnoresNestedValidity ==
    (Validated("Account") /\ AllDecode(claim) /\ AllResolve(claim)) =>
        /\ result = Nil
        /\ calls =
             [i \in 1..Len(claim.Act) |->
                 [fn |-> "DecodeActivationClaims", arg |-> claim.Act[i]]]
             \o [i \in 1..Len(claim.Imports) |->
                 [fn |-> "IsValidPublicAccountKey",
                  arg |-> claim.Imports[i].Account]]

\* valid although an import has an unknown type and an activation is invalid
C10_Witness ==
    /\ Validated("Account") /\ result = Nil
    /\ \E i \in 1..Len(claim.Imports) :
           ImportValid(claim.Imports[i]) # Nil
    /\ \E i \in 1..Len(claim.Act) :
           ActivationValid(DecodeActivationClaims(claim.Act[i]).claims).err
               # Nil

====
